---- MODULE Spec2Model ----
(***************************************************************************)
(* Testify.js: a suite object that registers test cases and hooks, runs    *)
(* them synchronously and records every assertion in a per-case stack.     *)
(*                                                                         *)
(* The repository holds two copies of the suite class that differ in       *)
(* run(): src/lib/Testify/Testify.js ("lib") and the bundled               *)
(* src/unnamed/part_000 ("part_000").  The variable `build` says which     *)
(* copy a behaviour executes.                                              *)
(*                                                                         *)
(* SpecRegister is the suite under registration calls with every kind of   *)
(* argument; Spec is the suite under run(), with callbacks that record     *)
(* nothing; SpecRecord is the suite under the assertion methods, called    *)
(* from callbacks and from outside run().                                  *)
(* SpecAssert is the suite under the comparison and membership assertions  *)
(* called with arguments; SpecFail is Spec with registration calls that    *)
(* raise.                                                                  *)
(*                                                                         *)
(* JavaScript values are records [t |-> type, v |-> String(value)].        *)
(***************************************************************************)
EXTENDS Integers, Sequences, FiniteSets, TLC

\* ---------------------------------------------------------------- bounds
\* registered cases per suite in SpecRegister / in Spec and SpecRecord,
\* assertion calls per suite, run() calls per suite
MaxTests == 3
MaxCases == 2
MaxIndex == 2
MaxRuns == 2

\* ------------------------------------------------------------ JS values
JSNull == [t |-> "null", v |-> "null"]
JSUndefined == [t |-> "undefined", v |-> "undefined"]
Str(s) == [t |-> "string", v |-> s]
Num(s) == [t |-> "number", v |-> s]
Bool(s) == [t |-> "boolean", v |-> s]
Fn(id) == [t |-> "function", v |-> id]
PlainObject == [t |-> "object", v |-> "[object Object]"]

Builds == {"lib", "part_000"}
Functions == {"f", "g"}
FnValues == {Fn(id) : id \in Functions}
\* values that are not functions
NonInvokable == {Str("x"), Num("5"), PlainObject, JSNull, JSUndefined}
\* values handed to before()/after()/beforeEach()/afterEach()
HookArgs == FnValues \cup NonInvokable
\* values handed to test() as its test case (undefined: the argument is omitted)
BodyArgs == {Fn("f")} \cup NonInvokable
\* values handed to test() as its first argument
NameArgs == {Str("a"), Fn("f"), JSNull}
\* case names registered in SpecRecord
CaseNames == {Str("a"), Str("toString")}

\* property names every object literal inherits from Object.prototype
ObjectPrototypeKeys == {"toString", "constructor", "hasOwnProperty", "valueOf", "__proto__"}

\* the property key a value is converted to when used in obj[value]
PropertyKey(x) == x.v

VARIABLES build, tests, stack, testIndex, currentTestCase, suiteResults,
          _before, _after, _beforeEach, _afterEach, instances,
          pc, idx, runs, lastCall, lastAssert, made, otherSuite

\* otherSuite: the fields of a second suite, constructed beside this one
\* pc, idx: the callback run() is inside ("idle" outside run()) and its case
\* runs: calls of run()
\* lastCall: what the last call of test(), of a hook setter or of run() gave its
\*   caller, the callbacks (and report()) it has invoked, and while a run() is
\*   in progress the number of assertion calls made inside each of its cases
\* lastAssert: what the last assertion call gave its caller
\* made[key]: assertion calls made while key was the current case's key
hooks == <<_before, _after, _beforeEach, _afterEach>>
recorder == <<stack, testIndex, suiteResults, lastAssert, made>>
runpos == <<pc, idx, runs, instances>>
vars == <<build, tests, stack, testIndex, currentTestCase, suiteResults,
          _before, _after, _beforeEach, _afterEach, instances,
          pc, idx, runs, lastCall, lastAssert, made, otherSuite>>

Call(result, ret, calls, asserts) ==
  [result |-> result, ret |-> ret, calls |-> calls, asserts |-> asserts]

\* ------------------------------------------------------------ isCallable
\* fn.call !== undefined && fn.apply !== undefined: reading a property of
\* null or undefined throws a TypeError; only functions have call and apply
\* among the values used here.
isCallable(fn) ==
  IF fn.t \in {"null", "undefined"} THEN "TypeError"
  ELSE IF fn.t = "function" THEN "true" ELSE "false"

\* affirmCallable: the error a registration raises for `callback`, or "none"
affirmCallable(callback) ==
  IF isCallable(callback) = "TypeError" THEN "TypeError"
  ELSE IF isCallable(callback) = "false" THEN "TestifyException"
  ELSE "none"

\* the default name numbered from the count before the registration
AutoName_ZeroBased(len) == Str("Test Case #" \o ToString(len))

\* "Test Case #" + (this.tests.length + 1)
AutoName(len) == Str("Test Case #" \o ToString(len + 1))

\* ---------------------------------------------------------- Constructor
\* the fields the constructor gives a suite
NewSuite ==
  [testIndex |-> 0, tests |-> <<>>, stack |-> <<>>, currentTestCase |-> JSNull,
   suiteResults |-> [pass |-> 0, fail |-> 0],
   _before |-> JSNull, _after |-> JSNull, _beforeEach |-> JSNull, _afterEach |-> JSNull,
   data |-> <<>>]

Init ==
  /\ build \in Builds
  /\ testIndex = 0
  /\ tests = <<>>
  /\ stack = <<>>
  /\ currentTestCase = JSNull
  /\ suiteResults = [pass |-> 0, fail |-> 0]
  /\ _before = JSNull
  /\ _after = JSNull
  /\ _beforeEach = JSNull
  /\ _afterEach = JSNull
  /\ instances = <<>>
  /\ pc = "idle"
  /\ idx = 0
  /\ runs = 0
  /\ lastCall = Call("returned", "this", <<>>, <<>>)
  /\ lastAssert = [result |-> "none", ret |-> "none"]
  /\ made = <<>>
  /\ otherSuite = NewSuite

\* ----------------------------------------------------------------- test
\* the error test(name, testCase) raises, or "none"
TestResult(name, testCase) ==
  IF isCallable(name) = "TypeError" THEN "TypeError"
  ELSE affirmCallable(IF isCallable(name) = "true" THEN name ELSE testCase)

\* the descriptor test(name, testCase) pushes
TestEntry(name, testCase) ==
  IF isCallable(name) = "true"
  THEN [name |-> AutoName(Len(tests)), testCase |-> name, pass |-> 0, fail |-> 0]
  ELSE [name |-> name, testCase |-> testCase, pass |-> 0, fail |-> 0]

\* a test() that creates the CaseResult of the case it registers
TestCall_EagerEntry(name, testCase) ==
  /\ pc = "idle"
  /\ IF TestResult(name, testCase) = "none"
     THEN /\ tests' = Append(tests, TestEntry(name, testCase))
          /\ stack' = [k \in DOMAIN stack \cup {PropertyKey(TestEntry(name, testCase).name)} |->
                         IF k \in DOMAIN stack THEN stack[k]
                         ELSE [name |-> TestEntry(name, testCase).name,
                               tests |-> <<>>, pass |-> 0, fail |-> 0]]
          /\ lastCall' = Call("returned", "this", <<>>, <<>>)
     ELSE /\ tests' = tests
          /\ stack' = stack
          /\ lastCall' = Call(TestResult(name, testCase), "none", <<>>, <<>>)
  /\ UNCHANGED <<build, otherSuite, currentTestCase, hooks, runpos,
                 testIndex, suiteResults, lastAssert, made>>

\* test(name, testCase)
TestCall(name, testCase) ==
  /\ pc = "idle"
  /\ IF TestResult(name, testCase) = "none"
     THEN /\ tests' = Append(tests, TestEntry(name, testCase))
          /\ lastCall' = Call("returned", "this", <<>>, <<>>)
     ELSE /\ tests' = tests
          /\ lastCall' = Call(TestResult(name, testCase), "none", <<>>, <<>>)
  /\ UNCHANGED <<build, otherSuite, currentTestCase, hooks, recorder, runpos>>

\* ------------------------------------------- before/after/beforeEach/afterEach
\* a hook that is kept once it is set
SetHook_KeepFirst(callback, old) ==
  IF affirmCallable(callback) = "none" /\ old = JSNull THEN callback ELSE old

\* a setter that stores the callback before it checks it
SetHook_StoreFirst(callback, old) == callback

\* affirmCallable(callback, kind); this._kind = callback
SetHook(callback, old) ==
  IF affirmCallable(callback) = "none" THEN callback ELSE old

HookCall(callback) ==
  IF affirmCallable(callback) = "none"
  THEN Call("returned", "undefined", <<>>, <<>>)
  ELSE Call(affirmCallable(callback), "none", <<>>, <<>>)

BeforeCall(callback) ==
  /\ pc = "idle"
  /\ _before' = SetHook(callback, _before)
  /\ lastCall' = HookCall(callback)
  /\ UNCHANGED <<build, otherSuite, tests, currentTestCase, _after, _beforeEach, _afterEach,
                 recorder, runpos>>

AfterCall(callback) ==
  /\ pc = "idle"
  /\ _after' = SetHook(callback, _after)
  /\ lastCall' = HookCall(callback)
  /\ UNCHANGED <<build, otherSuite, tests, currentTestCase, _before, _beforeEach, _afterEach,
                 recorder, runpos>>

BeforeEachCall(callback) ==
  /\ pc = "idle"
  /\ _beforeEach' = SetHook(callback, _beforeEach)
  /\ lastCall' = HookCall(callback)
  /\ UNCHANGED <<build, otherSuite, tests, currentTestCase, _before, _after, _afterEach,
                 recorder, runpos>>

AfterEachCall(callback) ==
  /\ pc = "idle"
  /\ _afterEach' = SetHook(callback, _afterEach)
  /\ lastCall' = HookCall(callback)
  /\ UNCHANGED <<build, otherSuite, tests, currentTestCase, _before, _after, _beforeEach,
                 recorder, runpos>>

\* ------------------------------------------------------- comparison of values
\* arguments of the assertion methods
Values == {Num("0"), Num("1"), Str(""), Str("1"), Bool("true"), Bool("false"), JSNull}
Arrays == {<<>>} \cup {<<x>> : x \in Values}

\* ToNumber of a number, string or boolean (as its decimal string)
ToNumber(x) ==
  IF x.t = "number" THEN x.v
  ELSE IF x.t = "boolean" THEN (IF x.v = "true" THEN "1" ELSE "0")
  ELSE IF x.v = "" THEN "0"
  ELSE IF x.v \in {"0", "1", "5"} THEN x.v
  ELSE "NaN"

\* a === b
StrictEquals(a, b) == a.t = b.t /\ a.v = b.v

\* a == b: same type compares strictly, null and undefined equal only each
\* other, and numbers, strings and booleans are compared as numbers
LooseEquals(a, b) ==
  IF a.t = b.t THEN StrictEquals(a, b)
  ELSE IF a.t \in {"null", "undefined"} /\ b.t \in {"null", "undefined"} THEN TRUE
  ELSE IF a.t \in {"null", "undefined"} \/ b.t \in {"null", "undefined"} THEN FALSE
  ELSE ToNumber(a) # "NaN" /\ ToNumber(a) = ToNumber(b)

\* arr.indexOf(arg): first index (from 0) holding a strictly equal element, or -1
RECURSIVE IndexOfFrom(_, _, _)
IndexOfFrom(arr, arg, i) ==
  IF i > Len(arr) THEN -1
  ELSE IF StrictEquals(arr[i], arg) THEN i - 1
  ELSE IndexOfFrom(arr, arg, i + 1)

IndexOf(arr, arg) == IndexOfFrom(arr, arg, 1)

\* ------------------------------------------------------------ assertions
Methods == {"assert", "assertTrue", "assertFalse", "assertEquals", "assertEqual",
            "assertNotEquals", "assertSame", "assertIdentical", "assertNotSame",
            "assertInArray", "assertNotInArray", "pass", "fail"}

\* the boolean each assertion method hands to recordTest
Predicate(m, arg1, arg2, arr) ==
  CASE m \in {"assert", "assertTrue"} -> LooseEquals(arg1, Bool("true"))
    [] m = "assertFalse" -> LooseEquals(arg1, Bool("false"))
    [] m \in {"assertEquals", "assertEqual"} -> LooseEquals(arg1, arg2)
    [] m = "assertNotEquals" -> ~LooseEquals(arg1, arg2)
    [] m \in {"assertSame", "assertIdentical"} -> StrictEquals(arg1, arg2)
    [] m = "assertNotSame" -> ~StrictEquals(arg1, arg2)
    [] m = "assertInArray" -> IndexOf(arr, arg1) > -1
    [] m = "assertNotInArray" -> ~(IndexOf(arr, arg1) > -1)
    [] m = "pass" -> TRUE
    [] m = "fail" -> FALSE

\* the outcomes a method produces over the bounded arguments
OutcomesOf ==
  [m \in Methods |->
     {Predicate(m, arg1, arg2, arr) : arg1 \in Values, arg2 \in Values, arr \in Arrays}]

\* this.stack[key]: an own entry, a property inherited from Object.prototype
\* (truthy, and without a tests list), or undefined
Lookup(obj, key) ==
  IF key \in DOMAIN obj THEN "own"
  ELSE IF key \in ObjectPrototypeKeys THEN "inherited"
  ELSE "undefined"

\* recordTest without this.suiteResults[result]++
recordTest_NoSuiteCount(pass) ==
  LET key == PropertyKey(currentTestCase)
      result == IF pass THEN "pass" ELSE "fail"
      found == Lookup(stack, key)
      item == IF found = "own" THEN stack[key]
              ELSE [name |-> currentTestCase, tests |-> <<>>, pass |-> 0, fail |-> 0]
      line == testIndex + 1
      pushed == [item EXCEPT !.tests = Append(@, [result |-> result, line |-> line]),
                             ![result] = @ + 1]
  IN IF found = "inherited"
     THEN [stack |-> stack, testIndex |-> line, suiteResults |-> suiteResults,
           result |-> "TypeError", ret |-> "none"]
     ELSE [stack |-> [k \in DOMAIN stack \cup {key} |-> IF k = key THEN pushed ELSE stack[k]],
           testIndex |-> line,
           suiteResults |-> suiteResults,
           result |-> "returned", ret |-> IF pass THEN "true" ELSE "false"]

\* recordTest without the lookup of an existing item: every call starts a new one
recordTest_NewItem(pass) ==
  LET key == PropertyKey(currentTestCase)
      result == IF pass THEN "pass" ELSE "fail"
      found == Lookup(stack, key)
      item == [name |-> currentTestCase, tests |-> <<>>, pass |-> 0, fail |-> 0]
      line == testIndex + 1
      pushed == [item EXCEPT !.tests = Append(@, [result |-> result, line |-> line]),
                             ![result] = @ + 1]
  IN IF found = "inherited"
     THEN [stack |-> stack, testIndex |-> line, suiteResults |-> suiteResults,
           result |-> "TypeError", ret |-> "none"]
     ELSE [stack |-> [k \in DOMAIN stack \cup {key} |-> IF k = key THEN pushed ELSE stack[k]],
           testIndex |-> line,
           suiteResults |-> [suiteResults EXCEPT ![result] = @ + 1],
           result |-> "returned", ret |-> IF pass THEN "true" ELSE "false"]

\* recordTest(pass, message): the recorder state after the call, the error it
\* raised (item.tests.push on an inherited property) and the value returned
recordTest(pass) ==
  LET key == PropertyKey(currentTestCase)
      result == IF pass THEN "pass" ELSE "fail"
      found == Lookup(stack, key)
      item == IF found = "own" THEN stack[key]
              ELSE [name |-> currentTestCase, tests |-> <<>>, pass |-> 0, fail |-> 0]
      line == testIndex + 1
      pushed == [item EXCEPT !.tests = Append(@, [result |-> result, line |-> line]),
                             ![result] = @ + 1]
  IN IF found = "inherited"
     THEN [stack |-> stack, testIndex |-> line, suiteResults |-> suiteResults,
           result |-> "TypeError", ret |-> "none"]
     ELSE [stack |-> [k \in DOMAIN stack \cup {key} |-> IF k = key THEN pushed ELSE stack[k]],
           testIndex |-> line,
           suiteResults |-> [suiteResults EXCEPT ![result] = @ + 1],
           result |-> "returned", ret |-> IF pass THEN "true" ELSE "false"]

\* the number kept under key k in one of the counting functions
Count(f, k) == IF k \in DOMAIN f THEN f[k] ELSE 0

Incr(f, k) == [x \in DOMAIN f \cup {k} |-> IF x = k THEN Count(f, k) + 1 ELSE f[x]]

\* an assertion method hands `outcome` to recordTest and returns what it returns
Record(outcome) ==
  /\ LET r == recordTest(outcome) IN
       /\ stack' = r.stack
       /\ testIndex' = r.testIndex
       /\ suiteResults' = r.suiteResults
       /\ lastAssert' = [result |-> r.result, ret |-> r.ret]
  /\ made' = Incr(made, PropertyKey(currentTestCase))
  /\ lastCall' = IF pc \in {"beforeEach", "testCase", "afterEach"}
                 THEN [lastCall EXCEPT !.asserts = Incr(@, idx)]
                 ELSE lastCall
  /\ UNCHANGED <<build, otherSuite, tests, currentTestCase, hooks, runpos>>

\* the assertion method m, called from a callback or from outside run(), with
\* arguments for which its predicate gives `outcome`
AssertionCall(m, outcome) == outcome \in OutcomesOf[m] /\ Record(outcome)

\* the methods whose predicate gives `outcome` for some of the bounded arguments
MethodsGiving(outcome) == {m \in Methods : outcome \in OutcomesOf[m]}

\* ------------------------------------------------------------------ run
Callbacks == {"before", "beforeEach", "testCase", "afterEach", "after"}

Event(ev, n, fn) == [ev |-> ev, n |-> n, fn |-> fn]

\* the guard of the before hook: part_000 tests for null first, lib does not
BeforeGuard ==
  IF build = "part_000" /\ _before = JSNull THEN "false" ELSE isCallable(_before)

\* the guard of the other hooks: hook !== null && isCallable(hook)
HookGuard(hook) == IF hook = JSNull THEN "false" ELSE isCallable(hook)

\* callback.apply(this, arr): control passes to the callback
Enter(ev, n, fn, call) ==
  /\ pc' = ev
  /\ idx' = n
  /\ lastCall' = Call("running", "none", Append(call.calls, Event(ev, n, fn.v)), call.asserts)
  /\ UNCHANGED instances

\* this.report(); (part_000: Constructor.instances.push(this);) return this
Finish(call) ==
  /\ pc' = "idle"
  /\ idx' = 0
  /\ instances' = IF build = "part_000" THEN Append(instances, "this") ELSE instances
  /\ lastCall' = Call("returned", "this", Append(call.calls, Event("report", 0, "")),
                      <<>>)

\* after the loop over this.tests
AfterLoop(call) ==
  /\ UNCHANGED currentTestCase
  /\ IF HookGuard(_after) = "true" THEN Enter("after", 0, _after, call) ELSE Finish(call)

\* the loop over this.tests, from the n-th case
LoopFrom(n, call) ==
  IF n <= Len(tests)
  THEN /\ currentTestCase' = tests[n].name
       /\ IF HookGuard(_beforeEach) = "true"
          THEN Enter("beforeEach", n, _beforeEach, call)
          ELSE Enter("testCase", n, tests[n].testCase, call)
  ELSE AfterLoop(call)

\* after the n-th test case has returned
AfterTestCase(n, call) ==
  IF HookGuard(_afterEach) = "true"
  THEN /\ Enter("afterEach", n, _afterEach, call)
       /\ UNCHANGED currentTestCase
  ELSE LoopFrom(n + 1, call)

\* a run() that has invoked nothing yet
Started == Call("running", "none", <<>>, <<>>)

\* run() is called: up to its first callback, or to its end when there is none
RunCall ==
  /\ pc = "idle"
  /\ runs' = runs + 1
  /\ IF BeforeGuard = "TypeError"
     THEN /\ pc' = "idle"
          /\ idx' = 0
          /\ lastCall' = Call("TypeError", "none", <<>>, <<>>)
          /\ UNCHANGED <<instances, currentTestCase>>
     ELSE IF BeforeGuard = "true"
     THEN /\ Enter("before", 0, _before, Started)
          /\ UNCHANGED currentTestCase
     ELSE LoopFrom(1, Started)
  /\ UNCHANGED <<build, otherSuite, tests, hooks, stack, testIndex, suiteResults, lastAssert, made>>

\* the running callback has returned: run() goes on to its next callback
Resume ==
  CASE pc = "before" -> LoopFrom(1, lastCall)
    [] pc = "beforeEach" -> /\ Enter("testCase", idx, tests[idx].testCase, lastCall)
                            /\ UNCHANGED currentTestCase
    [] pc = "testCase" -> AfterTestCase(idx, lastCall)
    [] pc = "afterEach" -> LoopFrom(idx + 1, lastCall)
    [] pc = "after" -> /\ Finish(lastCall)
                       /\ UNCHANGED currentTestCase

\* a run() that catches the error of a callback and goes on
Propagate_Continue == Resume

\* run() has no try/catch: an error raised by a callback leaves run() at once
Propagate ==
  /\ pc' = "idle"
  /\ idx' = 0
  /\ lastCall' = Call("raised", "none", lastCall.calls, <<>>)
  /\ UNCHANGED <<instances, currentTestCase>>

\* the running callback returns
Return ==
  /\ pc \in Callbacks
  /\ Resume
  /\ UNCHANGED <<build, otherSuite, tests, hooks, recorder, runs>>

\* the running callback raises (its own error, or one an assertion raised)
Raise ==
  /\ pc \in Callbacks
  /\ Propagate
  /\ UNCHANGED <<build, otherSuite, tests, hooks, recorder, runs>>

\* ---------------------------------------------------------- SpecRegister
\* the registration calls, with every kind of argument
Test ==
  \E name \in NameArgs, testCase \in BodyArgs :
    Len(tests) < MaxTests /\ TestCall(name, testCase)

Before == \E callback \in HookArgs : BeforeCall(callback)

After == \E callback \in HookArgs : AfterCall(callback)

BeforeEach == \E callback \in HookArgs : BeforeEachCall(callback)

AfterEach == \E callback \in HookArgs : AfterEachCall(callback)

NextRegister ==
  \/ Test
  \/ Before
  \/ After
  \/ BeforeEach
  \/ AfterEach

SpecRegister == Init /\ [][NextRegister]_vars

\* ------------------------------------------------------------------ Spec
\* run() on suites of named and unnamed cases, whose hooks are set and set
\* again; the callbacks record nothing
AddCase ==
  \E name \in {Str("a"), Fn("f")} :
    Len(tests) < MaxCases /\ TestCall(name, Fn("f"))

SetBefore == \E callback \in FnValues : BeforeCall(callback)

SetAfter == \E callback \in FnValues : AfterCall(callback)

SetBeforeEach == \E callback \in FnValues : BeforeEachCall(callback)

SetAfterEach == \E callback \in FnValues : AfterEachCall(callback)

Run == runs < MaxRuns /\ RunCall

Next ==
  \/ AddCase
  \/ SetBefore
  \/ SetAfter
  \/ SetBeforeEach
  \/ SetAfterEach
  \/ Run
  \/ Return
  \/ Raise

Spec == Init /\ [][Next]_vars

\* ------------------------------------------------------------ SpecRecord
\* the assertion methods, on suites whose cases and hooks are all functions
RegisterCase ==
  \E name \in CaseNames : Len(tests) < MaxCases /\ TestCall(name, Fn("f"))

RegisterBefore == BeforeCall(Fn("f"))

RegisterAfter == AfterCall(Fn("f"))

RegisterBeforeEach == BeforeEachCall(Fn("f"))

RegisterAfterEach == AfterEachCall(Fn("f"))

\* a call of any assertion method: AssertionCall(m, outcome) for some method m
Assertion ==
  \E outcome \in BOOLEAN :
    testIndex < MaxIndex /\ MethodsGiving(outcome) # {} /\ Record(outcome)

NextRecord ==
  \/ RegisterCase
  \/ RegisterBefore
  \/ RegisterAfter
  \/ RegisterBeforeEach
  \/ RegisterAfterEach
  \/ Assertion
  \/ Run
  \/ Return
  \/ Raise

SpecRecord == Init /\ [][NextRecord]_vars

\* -------------------------------------------------------------- SpecFail
\* Spec, with registration calls that raise between the others
BadTest ==
  \E name \in NameArgs, testCase \in BodyArgs :
    TestResult(name, testCase) # "none" /\ TestCall(name, testCase)

BadBefore == \E callback \in NonInvokable : BeforeCall(callback)

BadAfter == \E callback \in NonInvokable : AfterCall(callback)

BadBeforeEach == \E callback \in NonInvokable : BeforeEachCall(callback)

BadAfterEach == \E callback \in NonInvokable : AfterEachCall(callback)

NextFail ==
  \/ AddCase
  \/ SetBefore
  \/ SetAfter
  \/ SetBeforeEach
  \/ SetAfterEach
  \/ BadTest
  \/ BadBefore
  \/ BadAfter
  \/ BadBeforeEach
  \/ BadAfterEach
  \/ Run
  \/ Return

SpecFail == Init /\ [][NextFail]_vars

\* ---------------------------------------------------------------- report
\* the isCLI argument of the constructor; it is read by report() only, and
\* report() changes nothing, so a behaviour is the same for both values
CLIFlags == BOOLEAN

\* a call of a renderer with its arguments
Rendering(renderer, title, results, cases) ==
  [renderer |-> renderer, title |-> title, suiteResults |-> results, stack |-> cases]

\* report(): the renderers it invokes.  Both branches of if (this.isCLI())
\* hold only a comment, so neither Testify.report.cli nor Testify.report.html
\* is called
report(isCLI) == IF isCLI THEN <<>> ELSE <<>>

\* ------------------------------------------------------------ SpecAssert
\* the assertion methods called with arguments, from case bodies and from
\* outside run(), on suites without hooks

\* the array of the bundled self-test and the arguments it is searched for
SelfTestArr == <<Num("1"), Num("2"), JSNull, Bool("false"), Str("1"), Str("2")>>

MemberArgs == Values \cup {Num("-1")}

MemberArrays == Arrays \cup {SelfTestArr}

\* the assertion method m called with (arg1, arg2) or with (arg1, arr)
AssertionWith(m, arg1, arg2, arr) == Record(Predicate(m, arg1, arg2, arr))

\* assertEquals / assertNotEquals / assertSame / assertNotSame (arg1, arg2)
Compare ==
  \E m \in {"assertEquals", "assertNotEquals", "assertSame", "assertNotSame"} :
    \E arg1 \in Values, arg2 \in Values :
      testIndex < MaxIndex /\ AssertionWith(m, arg1, arg2, <<>>)

\* assertInArray / assertNotInArray (arg, arr)
Member ==
  \E m \in {"assertInArray", "assertNotInArray"} :
    \E arg \in MemberArgs, arr \in MemberArrays :
      testIndex < MaxIndex /\ AssertionWith(m, arg, JSNull, arr)

NextAssert ==
  \/ RegisterCase
  \/ RegisterBefore
  \/ Compare
  \/ Member
  \/ Run
  \/ Return

SpecAssert == Init /\ [][NextAssert]_vars

\* ================================================================ claims

\* the callbacks a run() of the suite as registered invokes when none raises
BeforePart == IF _before = JSNull THEN <<>> ELSE <<Event("before", 0, _before.v)>>

AfterPart == IF _after = JSNull THEN <<>> ELSE <<Event("after", 0, _after.v)>>

CasePart(n) ==
  (IF _beforeEach = JSNull THEN <<>> ELSE <<Event("beforeEach", n, _beforeEach.v)>>)
  \o <<Event("testCase", n, tests[n].testCase.v)>>
  \o (IF _afterEach = JSNull THEN <<>> ELSE <<Event("afterEach", n, _afterEach.v)>>)

RECURSIVE CasesFrom(_)
CasesFrom(n) == IF n > Len(tests) THEN <<>> ELSE CasePart(n) \o CasesFrom(n + 1)

ExpectedCalls == BeforePart \o CasesFrom(1) \o AfterPart \o <<Event("report", 0, "")>>

\* a step in which run() ends without a callback having raised
RunEnds == (RunCall \/ Return) /\ pc' = "idle"

\* C1: a run() in which no callback raises invokes before (if set), then per
\* case in registration order beforeEach (if set), the case, afterEach (if
\* set), then after (if set), then report(), each once, and returns the suite.
RunOrder ==
  [][RunEnds => /\ lastCall'.result = "returned"
                /\ lastCall'.ret = "this"
                /\ lastCall'.calls = ExpectedCalls]_vars

\* C2: whatever hooks were never set, run() raises nothing itself, invokes no
\* unset hook, and still invokes every registered case and then report().
HooksOptional ==
  [][RunEnds =>
       LET calls == lastCall'.calls IN
       /\ lastCall'.result # "TypeError"
       /\ \A n \in 1..Len(tests) : \E i \in DOMAIN calls :
            calls[i].ev = "testCase" /\ calls[i].n = n
       /\ calls # <<>> /\ calls[Len(calls)].ev = "report"
       /\ \A i \in DOMAIN calls :
            /\ calls[i].ev = "before" => _before # JSNull
            /\ calls[i].ev = "after" => _after # JSNull
            /\ calls[i].ev = "beforeEach" => _beforeEach # JSNull
            /\ calls[i].ev = "afterEach" => _afterEach # JSNull]_vars

RECURSIVE SumOver(_, _)
SumOver(f, S) ==
  IF S = {} THEN 0
  ELSE LET k == CHOOSE x \in S : TRUE IN f[k] + SumOver(f, S \ {k})

Tagged(item, tag) == Cardinality({i \in DOMAIN item.tests : item.tests[i].result = tag})

\* C3: in every state the pass + fail of all CaseResults of the stack sum to
\* suiteResults.pass + suiteResults.fail, and every CaseResult has pass + fail
\* records, pass of them tagged 'pass' and fail of them tagged 'fail'.
CountsAgree ==
  /\ SumOver([k \in DOMAIN stack |-> stack[k].pass + stack[k].fail], DOMAIN stack)
       = suiteResults.pass + suiteResults.fail
  /\ \A k \in DOMAIN stack :
       /\ stack[k].pass + stack[k].fail = Len(stack[k].tests)
       /\ stack[k].pass = Tagged(stack[k], "pass")
       /\ stack[k].fail = Tagged(stack[k], "fail")

\* two CaseResults, a passing and a failing record
CountsAgreeWitness ==
  /\ Cardinality(DOMAIN stack) = 2
  /\ suiteResults.pass = 1
  /\ suiteResults.fail = 1
  /\ runs > 0

\* the sequence indices of all records of the stack
Lines == UNION {{stack[k].tests[i].line : i \in DOMAIN stack[k].tests} : k \in DOMAIN stack}

\* C4: testIndex always equals suiteResults.pass + suiteResults.fail, the
\* records carry the indices 1..testIndex, each once, and within a CaseResult
\* they increase in recording order.
IndexSequence ==
  /\ testIndex = suiteResults.pass + suiteResults.fail
  /\ Lines = 1..testIndex
  /\ \A k \in DOMAIN stack : \A i, j \in DOMAIN stack[k].tests :
       i < j => stack[k].tests[i].line < stack[k].tests[j].line

\* pass + fail of the CaseResult stored under a name, 0 when there is none
CaseTotal(stk, name) ==
  IF PropertyKey(name) \in DOMAIN stk
  THEN stk[PropertyKey(name)].pass + stk[PropertyKey(name)].fail
  ELSE 0

AssertionContract ==
  [][\A m \in Methods : \A outcome \in BOOLEAN :
       AssertionCall(m, outcome) =>
         LET key == PropertyKey(currentTestCase)
             old == IF key \in DOMAIN stack THEN stack[key]
                    ELSE [tests |-> <<>>, pass |-> 0, fail |-> 0]
             tag == IF lastAssert'.ret = "true" THEN "pass" ELSE "fail"
             other == IF tag = "pass" THEN "fail" ELSE "pass"
         IN /\ lastAssert'.result = "returned"
            /\ lastAssert'.ret \in {"true", "false"}
            /\ key \in DOMAIN stack'
            /\ Len(stack'[key].tests) = Len(old.tests) + 1
            /\ stack'[key].tests[Len(stack'[key].tests)].result = tag
            /\ stack'[key][tag] = old[tag] + 1
            /\ stack'[key][other] = old[other]
            /\ suiteResults'[tag] = suiteResults[tag] + 1
            /\ suiteResults'[other] = suiteResults[other]
            /\ m = "pass" => lastAssert'.ret = "true"
            /\ m = "fail" => lastAssert'.ret = "false"]_vars

\* C7: a registration call given a non-invokable test case or hook raises a
\* TestifyException, and a registration call raises no other kind of error.
InvalidCallbackError ==
  [][/\ \A callback \in HookArgs :
          (BeforeCall(callback) \/ AfterCall(callback)
             \/ BeforeEachCall(callback) \/ AfterEachCall(callback))
          => lastCall'.result = IF callback \in NonInvokable
                                THEN "TestifyException" ELSE "returned"
     /\ \A name \in NameArgs, testCase \in BodyArgs :
          TestCall(name, testCase)
          => /\ lastCall'.result \in {"returned", "TestifyException"}
             /\ (name \notin FnValues /\ testCase \in NonInvokable)
                  => lastCall'.result = "TestifyException"]_vars

\* C8: when a callback raises, run() ends at once: it invokes nothing more,
\* neither a callback nor report(), gives its caller the error and not the
\* suite, and leaves the records and counters as they were.
AbortOnError ==
  /\ [][Raise => /\ pc' = "idle"
                 /\ lastCall'.result = "raised"
                 /\ lastCall'.ret = "none"
                 /\ lastCall'.calls = lastCall.calls
                 /\ instances' = instances
                 /\ stack' = stack
                 /\ suiteResults' = suiteResults
                 /\ testIndex' = testIndex]_vars
  /\ [](lastCall.result = "raised" =>
          /\ pc = "idle"
          /\ \A i \in DOMAIN lastCall.calls : lastCall.calls[i].ev # "report")

\* the first of two cases has raised after a record was written
AbortOnErrorWitness ==
  /\ lastCall.result = "raised"
  /\ Len(tests) = 2
  /\ lastCall.calls[Len(lastCall.calls)] = Event("testCase", 1, "f")
  /\ _after # JSNull
  /\ CaseTotal(stack, tests[1].name) = 1

\* C9: a hook setter given a function stores it in place of the one stored
\* before and changes no hook of another kind, and run() invokes as a hook
\* only the function stored for that kind.
SingleHook ==
  /\ [][\A callback \in FnValues :
          /\ BeforeCall(callback) =>
               /\ _before' = callback
               /\ <<_after, _beforeEach, _afterEach>>' = <<_after, _beforeEach, _afterEach>>
          /\ AfterCall(callback) =>
               /\ _after' = callback
               /\ <<_before, _beforeEach, _afterEach>>' = <<_before, _beforeEach, _afterEach>>
          /\ BeforeEachCall(callback) =>
               /\ _beforeEach' = callback
               /\ <<_before, _after, _afterEach>>' = <<_before, _after, _afterEach>>
          /\ AfterEachCall(callback) =>
               /\ _afterEach' = callback
               /\ <<_before, _after, _beforeEach>>' = <<_before, _after, _beforeEach>>]_vars
  /\ [](\A i \in DOMAIN lastCall.calls :
          LET c == lastCall.calls[i] IN
          /\ c.ev = "before" => c.fn = _before.v
          /\ c.ev = "after" => c.fn = _after.v
          /\ c.ev = "beforeEach" => c.fn = _beforeEach.v
          /\ c.ev = "afterEach" => c.fn = _afterEach.v)

\* a completed run() that invoked hooks of all four kinds, not all one function
SingleHookWitness ==
  /\ lastCall.result = "returned"
  /\ \E i, j, k, l \in DOMAIN lastCall.calls :
       /\ lastCall.calls[i] = Event("before", 0, "g")
       /\ lastCall.calls[j] = Event("beforeEach", 1, "f")
       /\ lastCall.calls[k] = Event("afterEach", 1, "g")
       /\ lastCall.calls[l] = Event("after", 0, "f")

\* C10: test(body) on a suite of k cases appends a case named
\* "Test Case #<k+1>", test(name, body) one of the given name; either appends
\* one case after the earlier ones, which it keeps, and returns the suite.
RegisterAppends ==
  [][\A name \in NameArgs, testCase \in BodyArgs :
       (TestCall(name, testCase)
          /\ (name \in FnValues \/ (name.t = "string" /\ testCase \in FnValues)))
       => /\ lastCall'.result = "returned"
          /\ lastCall'.ret = "this"
          /\ Len(tests') = Len(tests) + 1
          /\ SubSeq(tests', 1, Len(tests)) = tests
          /\ tests'[Len(tests')].name =
               IF name \in FnValues
               THEN Str("Test Case #" \o ToString(Len(tests) + 1))
               ELSE name]_vars

\* an unnamed case registered after a named and an unnamed one
RegisterAppendsWitness ==
  /\ Len(tests) = 3
  /\ tests[1].name = Str("a")
  /\ tests[2].name = Str("Test Case #2")
  /\ tests[3].name = Str("Test Case #3")
  /\ lastCall.ret = "this"

\* the string an assertion method returns for a boolean
Ret(b) == IF b THEN "true" ELSE "false"

\* C11: assertEquals(0, ""), assertEquals(0, null) and assertEquals(1, true)
\* return true, assertSame(0, "") and assertSame(1, true) return false;
\* assertSame(a, b) true implies assertEquals(a, b) true, and assertNotEquals
\* and assertNotSame return the negation of assertEquals and assertSame.
EqualityKinds ==
  [][\A a \in Values, b \in Values :
       /\ AssertionWith("assertEquals", a, b, <<>>) =>
            /\ <<a, b>> \in {<<Num("0"), Str("")>>, <<Num("0"), JSNull>>,
                             <<Num("1"), Bool("true")>>}
                 => lastAssert'.ret = "true"
            /\ Predicate("assertSame", a, b, <<>>) => lastAssert'.ret = "true"
       /\ AssertionWith("assertSame", a, b, <<>>) =>
            /\ <<a, b>> \in {<<Num("0"), Str("")>>, <<Num("1"), Bool("true")>>}
                 => lastAssert'.ret = "false"
            /\ lastAssert'.ret = "true" => Predicate("assertEquals", a, b, <<>>)
       /\ AssertionWith("assertNotEquals", a, b, <<>>) =>
            lastAssert'.ret = Ret(~Predicate("assertEquals", a, b, <<>>))
       /\ AssertionWith("assertNotSame", a, b, <<>>) =>
            lastAssert'.ret = Ret(~Predicate("assertSame", a, b, <<>>))]_vars

\* C12: assertInArray(arg, arr) records and returns true iff some element of
\* arr is strictly equal to arg (same type, same value), assertNotInArray the
\* negation; assertInArray(false, [0]) returns false.
StrictMembership ==
  [][\A arg \in MemberArgs, arr \in MemberArrays :
       LET member == \E i \in DOMAIN arr : arr[i] = arg
           key == PropertyKey(currentTestCase)
           recorded(b) ==
             /\ lastAssert'.ret = Ret(b)
             /\ key \in DOMAIN stack'
             /\ stack'[key].tests # <<>>
             /\ stack'[key].tests[Len(stack'[key].tests)].result
                  = IF b THEN "pass" ELSE "fail"
       IN /\ AssertionWith("assertInArray", arg, JSNull, arr) => recorded(member)
          /\ AssertionWith("assertNotInArray", arg, JSNull, arr) => recorded(~member)
          /\ (AssertionWith("assertInArray", arg, JSNull, arr)
                /\ arg = Bool("false") /\ arr = <<Num("0")>>)
             => lastAssert'.ret = "false"]_vars

\* C13: assertInArray(0, [false]) returns true, and for
\* arr = [1, 2, null, false, "1", "2"] assertInArray(true, arr) and
\* assertInArray(0, arr) return true while assertInArray(-1, arr) returns false.
CoercedMembership ==
  [][/\ AssertionWith("assertInArray", Num("0"), JSNull, <<Bool("false")>>)
          => lastAssert'.ret = "true"
     /\ AssertionWith("assertInArray", Bool("true"), JSNull, SelfTestArr)
          => lastAssert'.ret = "true"
     /\ AssertionWith("assertInArray", Num("0"), JSNull, SelfTestArr)
          => lastAssert'.ret = "true"
     /\ AssertionWith("assertInArray", Num("-1"), JSNull, SelfTestArr)
          => lastAssert'.ret = "false"]_vars

\* C14: every completed run() invokes report() once, at its end, and report()
\* invokes exactly one renderer, Testify.report.cli when the suite is in CLI
\* mode and Testify.report.html otherwise, with the suite's title,
\* suiteResults and stack.
ReportDispatch ==
  [][(RunEnds /\ lastCall'.result = "returned") =>
       LET calls == lastCall'.calls IN
       /\ Cardinality({i \in DOMAIN calls : calls[i].ev = "report"}) = 1
       /\ calls[Len(calls)].ev = "report"
       /\ \A isCLI \in CLIFlags :
            report(isCLI) =
              <<Rendering(IF isCLI THEN "Testify.report.cli" ELSE "Testify.report.html",
                          "title", suiteResults', stack')>>]_vars

\* C15: no operation on a suite (a registration, a hook setting, an
\* assertion call, run()) changes a field of another suite, nor an object
\* outside the suite such as the list of instances kept on the constructor.
NoSharedState ==
  [][otherSuite' = otherSuite /\ instances' = instances]_vars

\* what C16 says of every state and of every call but the end of a run():
\* every entry has records, made while its name was current; only a recorded
\* assertion adds an entry, that of the current name; test() leaves the stack
\* alone and the pass/fail of every descriptor stay 0
LazyEntries ==
  /\ [](\A k \in DOMAIN stack : stack[k].tests # <<>> /\ Count(made, k) > 0)
  /\ [](\A n \in DOMAIN tests : tests[n].pass = 0 /\ tests[n].fail = 0)
  /\ [][IF \E outcome \in BOOLEAN : Record(outcome)
        THEN DOMAIN stack' =
               DOMAIN stack \cup (IF lastAssert'.result = "returned"
                                  THEN {PropertyKey(currentTestCase)} ELSE {})
        ELSE stack' = stack]_vars

\* C16 as stated: a CaseResult exists under a name iff an assertion was
\* recorded while that name was current, and after a completed run() a
\* registered case whose beforeEach, body and afterEach made no assertion has
\* no entry in the stack.
LazyPerCase ==
  /\ LazyEntries
  /\ [][(RunEnds /\ lastCall'.result = "returned") =>
          \A n \in DOMAIN tests :
            Count(lastCall.asserts, n) = 0
            => PropertyKey(tests[n].name) \notin DOMAIN stack']_vars

\* C16 amended: a CaseResult exists under a name iff an assertion was
\* recorded while that name was current, and after a completed run() a name
\* under which no assertion call was ever made has no entry in the stack.
LazyCaseResult ==
  /\ LazyEntries
  /\ [][(RunEnds /\ lastCall'.result = "returned") =>
          \A n \in DOMAIN tests :
            Count(made', PropertyKey(tests[n].name)) = 0
            => PropertyKey(tests[n].name) \notin DOMAIN stack']_vars

\* a completed run() of two cases, the first with an assertion, the second
\* without
LazyCaseResultWitness ==
  /\ pc = "idle"
  /\ lastCall.result = "returned"
  /\ lastCall.calls # <<>>
  /\ Len(tests) = 2
  /\ tests[1].name = Str("a")
  /\ tests[2].name = Str("toString")
  /\ Count(made, "a") = 1
  /\ Count(made, "toString") = 0
  /\ DOMAIN stack = {"a"}

\* a call raises one of the two errors and leaves cases, hooks, records,
\* counters and current case name as they were
RaisedAndKept ==
  /\ lastCall'.result \in {"TestifyException", "TypeError"}
  /\ tests' = tests
  /\ AutoName(Len(tests')) = AutoName(Len(tests))
  /\ hooks' = hooks
  /\ <<stack, testIndex, suiteResults, currentTestCase>>'
       = <<stack, testIndex, suiteResults, currentTestCase>>

\* C17: a registration call that raises leaves the suite as it was: a failed
\* test() keeps the registered cases (so the next unnamed case gets the number
\* it would have got), a failed hook setter keeps the hook stored before, or
\* its absence, and run() invokes as hooks the ones that are kept.
FailedRegistration ==
  /\ [][(lastCall'.result # "returned" /\ ~RaisedAndKept) =>
          /\ \A name \in NameArgs, testCase \in BodyArgs : ~TestCall(name, testCase)
          /\ \A callback \in HookArgs :
               ~(BeforeCall(callback) \/ AfterCall(callback)
                   \/ BeforeEachCall(callback) \/ AfterEachCall(callback))]_vars
  /\ [][\A i \in DOMAIN lastCall'.calls :
          LET c == lastCall'.calls[i] IN
          /\ c.ev \in {"before", "after", "beforeEach", "afterEach"}
          /\ i > Len(lastCall.calls) \/ pc = "idle"
          => c.fn = (CASE c.ev = "before" -> _before
                       [] c.ev = "after" -> _after
                       [] c.ev = "beforeEach" -> _beforeEach
                       [] c.ev = "afterEach" -> _afterEach).v]_vars

\* a hook setter has just raised on a suite of two cases that has a before
\* hook and no after hook
FailedRegistrationWitness ==
  /\ lastCall.result = "TestifyException"
  /\ Len(tests) = 2
  /\ tests[2].name = Str("Test Case #2")
  /\ _before = Fn("g")
  /\ _after = JSNull
  /\ runs = 1

\* a run() of the suite has returned: the last call was one, or the suite is
\* in the list of instances
RunHasReturned ==
  \/ lastCall.result = "returned" /\ lastCall.calls # <<>>
  \/ instances # <<>>

\* C18: currentTestCase is changed only by run(), at the start of a case, to
\* the name of that case.  Every assertion call is recorded in the CaseResult
\* of the current name and counted in suiteResults; that name is null until a
\* case has started (no run() yet, or the before hook of the first run()),
\* the name of the surrounded case inside beforeEach, body and afterEach, and
\* the name of the last registered case in the after hook and after run() has
\* returned.
Attribution ==
  /\ [][currentTestCase' # currentTestCase =>
          /\ RunCall \/ Return
          /\ pc' \in {"beforeEach", "testCase"}
          /\ currentTestCase' = tests[idx'].name]_vars
  /\ [][\A outcome \in BOOLEAN : Record(outcome) =>
          LET name == IF runs = 0 \/ (runs = 1 /\ pc = "before") THEN JSNull
                      ELSE IF pc \in {"beforeEach", "testCase", "afterEach"}
                      THEN tests[idx].name
                      ELSE IF (pc = "after" \/ (pc = "idle" /\ RunHasReturned))
                              /\ tests # <<>>
                      THEN tests[Len(tests)].name
                      ELSE currentTestCase
              tag == IF outcome THEN "pass" ELSE "fail"
          IN /\ currentTestCase = name
             /\ CaseTotal(stack', name) = CaseTotal(stack, name) + 1
             /\ suiteResults'[tag] = suiteResults[tag] + 1]_vars

====
